---- MODULE Spec2Model ----
(***************************************************************************)
(* State-machine model of src/server.js (Express + supabase-js + JWT).    *)
(*                                                                         *)
(* Every `await supabase...` is one database round trip.  A handler is a   *)
(* sequence of such round trips; between two of them any other request or  *)
(* the cleanup job may run.  One action below = the database executing the *)
(* pending call of one request + the JavaScript continuation up to the     *)
(* next await (or up to the response).                                     *)
(*                                                                         *)
(* Time is counted in days.  supabase-js (v2) never throws on a failed     *)
(* call: it resolves to {data: null, error}.  Whether a call fails is the  *)
(* input `fail` of the action.                                             *)
(*                                                                         *)
(* `last` is an observation variable: the response (or middleware/job      *)
(* event) produced by the step that led to the current state, NoEvent      *)
(* when that step produced none.                                           *)
(***************************************************************************)
EXTENDS Integers, FiniteSets, Sequences, Bags, TLC

VARIABLES
    now,        \* wall clock (days)
    ticks,      \* number of clock advances so far (bounds the run)
    users,      \* table "users": set of rows [id, mobile_number, last_login]
    addresses,  \* table "addresses": set of rows [id, user_id, data]
    nextUserId, \* users.id sequence
    nextAddrId, \* addresses.id sequence
    tokens,     \* tokens the clients hold (from signup/login responses)
    reqs,       \* bag of in-flight HTTP requests
    job,        \* the cleanupInactiveUsers iteration
    news,       \* table "news_letter": number of rows per email
    last        \* event produced by the latest step

vars == <<now, ticks, users, addresses, nextUserId, nextAddrId, tokens, reqs, job, news, last>>

----------------------------------------------------------------------------
(* Bounds of the model *)
MaxTicks == 3        \* clock advances per run
MaxUsers == 2        \* rows ever inserted into "users"
MaxAddrs == 1        \* rows ever inserted into "addresses"
MaxTokens == 1       \* tokens a client keeps
MaxConcurrent == 2   \* overlapping activities (in-flight requests + running job)
MaxNewsRows == 2     \* rows ever inserted into "news_letter" per email

(* Program constants *)
TokenTTL == 7          \* expiresIn: "7d"
InactiveMonths == 3    \* setMonth(getMonth() - 3)
DaysPerMonth == 30     \* length of the calendar month of Date.setMonth, in days

Mobiles == {"m1", "m2"}
NoMobile == ""
Emails == {"e1", "e2"}
NoEmail == ""
AddrData == {"a", "b"}
NoTime == 0 - 1        \* SQL NULL / unset timestamp
\* The clock schedule: day 0, +6 (inside the token window), +1 (the expiry
\* instant), +90 (three months), then day by day.
TickStep(i) ==
    IF i = 1 THEN TokenTTL - 1
    ELSE IF i = 3 THEN InactiveMonths * DaysPerMonth
    ELSE 1

NoRow == [id |-> 0, mobile_number |-> NoMobile, last_login |-> NoTime]
NoAddr == [id |-> 0, user_id |-> 0, data |-> ""]
NoToken == [user_id |-> 0, mobile |-> NoMobile, iat |-> 0, exp |-> 0, sig |-> "none"]
ForgedToken == [user_id |-> 1, mobile |-> "m1", iat |-> 0, exp |-> 1000, sig |-> "bad"]

----------------------------------------------------------------------------
(* supabase-js result helpers *)

\* .single(): exactly one row, or an error (PGRST116 on zero or several rows)
Single(rows, none) ==
    IF Cardinality(rows) = 1
    THEN [data |-> CHOOSE r \in rows : TRUE, error |-> FALSE]
    ELSE [data |-> none, error |-> TRUE]

\* a failed round trip
Failed(none) == [data |-> none, error |-> TRUE]

\* any round trip may fail (network, PostgREST or database error)
Outcomes == {FALSE, TRUE}

\* an insert into a table that is full (bound of the model) fails
InsertOutcomes(nextId, max) == IF nextId <= max THEN Outcomes ELSE {TRUE}

----------------------------------------------------------------------------
(* Token codec *)

\* jwt.sign({user_id, mobile}, secret, {expiresIn: "7d"})
GenerateToken(user, t) ==
    [user_id |-> user.id, mobile |-> user.mobile_number,
     iat |-> t, exp |-> t + TokenTTL, sig |-> "ok"]

\* a verifier with a grace instant: the token still passes at its expiry time
Verify_grace(tok, t) == tok.sig = "ok" /\ t <= tok.exp

\* jwt.verify: bad signature throws; `now >= exp` throws TokenExpiredError
Verify(tok, t) == tok.sig = "ok" /\ t < tok.exp

\* req.headers.authorization?.split(" ")[1]
ExtractToken(header) == IF Len(header) >= 2 THEN header[2] ELSE NoToken

\* Authorization headers a client can send
Headers == {<<>>, <<"Bearer">>, <<"Bearer", ForgedToken>>} \cup {<<"Bearer", t>> : t \in tokens}

\* the client keeps the token of a 201/200 response (discarding old ones when full)
Keep(tok) == IF Cardinality(tokens) < MaxTokens THEN tokens \cup {tok} ELSE {tok}

----------------------------------------------------------------------------
(* Requests, events *)
NewReq(kind) ==
    [kind |-> kind, pc |-> "start", mobile |-> NoMobile, email |-> NoEmail,
     token |-> NoToken, user_id |-> 0, ts |-> NoTime, pre |-> FALSE, ok |-> FALSE]

NoEvent ==
    [kind |-> "none", status |-> 0, msg |-> "", token |-> NoToken, user_id |-> 0,
     pre |-> FALSE, ok |-> FALSE, lookup |-> "none", stored |-> FALSE, eff |-> FALSE,
     cutoff |-> NoTime, startedAt |-> NoTime, deleted |-> {}, users0 |-> {}, addrs0 |-> {}]

\* the response of request r: res.status(st).json({...: m})
Response(r, st, m) ==
    [NoEvent EXCEPT !.kind = r.kind, !.status = st, !.msg = m, !.pre = r.pre, !.ok = r.ok]

Put(r) == reqs (+) SetToBag({r})
Take(r) == reqs (-) SetToBag({r})
Move(r, r2) == (reqs (-) SetToBag({r})) (+) SetToBag({r2})
InFlight(kind, pc) == {r \in BagToSet(reqs) : r.kind = kind /\ r.pc = pc}
Running == IF job.pc = "idle" THEN 0 ELSE 1
Room == BagCardinality(reqs) + Running < MaxConcurrent

\* any database step of a request disturbs a running cleanup iteration
Disturb == [job EXCEPT !.clean = FALSE, !.users0 = {}, !.addrs0 = {}]

IdleJob ==
    [pc |-> "idle", cutoff |-> NoTime, startedAt |-> NoTime, userIds |-> {},
     clean |-> FALSE, users0 |-> {}, addrs0 |-> {}, addrErr |-> FALSE]

Init ==
    /\ now = 0 /\ ticks = 0
    /\ users = {} /\ addresses = {}
    /\ nextUserId = 1 /\ nextAddrId = 1
    /\ tokens = {}
    /\ reqs = EmptyBag
    /\ job = IdleJob
    /\ news = [e \in Emails |-> 0]
    /\ last = NoEvent

\* The clock advances between activities: a request or a job iteration
\* takes far less than a day.
Tick ==
    /\ ticks < MaxTicks
    /\ reqs = EmptyBag /\ job.pc = "idle"
    /\ now' = now + TickStep(ticks + 1)
    /\ ticks' = ticks + 1
    /\ last' = NoEvent
    /\ UNCHANGED <<users, addresses, nextUserId, nextAddrId, tokens, reqs, job, news>>

----------------------------------------------------------------------------
(* POST /signup *)

\* lines 55-63: validate the body; the lookup by mobile_number returns (only
\* `data` is read); issue the insert
SignupSelect ==
    /\ Room
    /\ \E m \in Mobiles \cup {NoMobile}, fail \in Outcomes :
         LET r == [NewReq("signup") EXCEPT !.mobile = m,
                       !.pre = (\E u \in users : u.mobile_number = m)]
             res == IF fail THEN Failed(NoRow)
                    ELSE Single({u \in users : u.mobile_number = m}, NoRow)
         IN IF m = NoMobile
            THEN /\ ~fail
                 /\ last' = Response(r, 400, "All fields are required")
                 /\ UNCHANGED <<reqs, job>>
            ELSE /\ IF res.data # NoRow
                    THEN /\ last' = Response(r, 400, "User already exists. Please log in.")
                         /\ UNCHANGED reqs
                    ELSE /\ reqs' = Put([r EXCEPT !.pc = "insert"])
                         /\ last' = NoEvent
                 /\ job' = Disturb
    /\ UNCHANGED <<now, ticks, users, addresses, nextUserId, nextAddrId, tokens, news>>

\* The insert of a row whose mobile_number is already stored: the schema is
\* not part of the source, so a unique constraint may or may not reject it.
InsertUserOutcomes(m) ==
    IF \E u \in users : u.mobile_number = m THEN {"ok", "unique_violation"} ELSE {"ok"}

\* lines 63-69: the insert returns.  last_login is not part of the insert: the
\* column default (unset or now()) is not part of the source.
SignupInsert ==
    /\ \E r \in InFlight("signup", "insert"), fail \in InsertOutcomes(nextUserId, MaxUsers),
          ll \in {NoTime, now} :
       \E out \in InsertUserOutcomes(r.mobile) :
         LET newUser == [id |-> nextUserId, mobile_number |-> r.mobile, last_login |-> ll]
             tok == GenerateToken(newUser, now)
         IN /\ reqs' = Take(r)
            /\ IF fail \/ out # "ok"
               THEN /\ last' = Response(r, 500, "error.message")
                    /\ UNCHANGED <<users, nextUserId, tokens>>
               ELSE /\ users' = users \cup {newUser}
                    /\ nextUserId' = nextUserId + 1
                    /\ tokens' = Keep(tok)
                    /\ last' = [Response(r, 201, "Signup successful") EXCEPT !.eff = TRUE]
    /\ job' = Disturb
    /\ UNCHANGED <<now, ticks, addresses, nextAddrId, news>>

----------------------------------------------------------------------------
(* POST /login *)

\* lines 79-88: validate the body; the lookup returns; the update is issued
\* with new Date()
LoginSelect ==
    /\ Room
    /\ \E m \in Mobiles \cup {NoMobile}, fail \in Outcomes :
         LET r == [NewReq("login") EXCEPT !.mobile = m]
             res == IF fail THEN Failed(NoRow)
                    ELSE Single({u \in users : u.mobile_number = m}, NoRow)
         IN IF m = NoMobile
            THEN /\ ~fail
                 /\ last' = Response(r, 400, "Mobile number is required")
                 /\ UNCHANGED <<reqs, job>>
            ELSE /\ IF res.data = NoRow
                    THEN /\ last' = Response(r, 404, "User not found. Please sign up.")
                         /\ UNCHANGED reqs
                    ELSE /\ reqs' = Put([r EXCEPT !.pc = "update", !.user_id = res.data.id, !.ts = now])
                         /\ last' = NoEvent
                 /\ job' = Disturb
    /\ UNCHANGED <<now, ticks, users, addresses, nextUserId, nextAddrId, tokens, news>>

\* update({last_login: ts}).eq("id", id)
UpdateLastLogin(rows, id, ts) ==
    {IF u.id = id THEN [u EXCEPT !.last_login = ts] ELSE u : u \in rows}

\* lines 88-91: the update returns (its result is not read); respond 200
LoginUpdate ==
    /\ \E r \in InFlight("login", "update"), fail \in Outcomes :
         LET tok == GenerateToken([id |-> r.user_id, mobile_number |-> r.mobile], now)
             after == IF fail THEN users ELSE UpdateLastLogin(users, r.user_id, r.ts)
         IN /\ users' = after
            /\ tokens' = Keep(tok)
            /\ reqs' = Take(r)
            /\ last' = [Response(r, 200, "Login successful") EXCEPT
                           !.eff = (\E u \in after : u.id = r.user_id /\ u.last_login = r.ts)]
    /\ job' = Disturb
    /\ UNCHANGED <<now, ticks, addresses, nextUserId, nextAddrId, news>>

----------------------------------------------------------------------------
(* authenticateToken (lines 33-50) *)

\* the credential is one generateToken produced and its 7-day window is open
InWindow(tok, t) == tok.sig = "ok" /\ t < tok.iat + TokenTTL

\* lines 34-41: extract, verify, issue the lookup by primary key
StartProtected ==
    /\ Room
    /\ \E h \in Headers :
         LET tok == ExtractToken(h)
             r == [NewReq("protected") EXCEPT !.token = tok, !.ok = InWindow(tok, now)]
             known == \E u \in users : u.id = tok.user_id
         IN IF tok = NoToken
            THEN /\ last' = [Response(r, 401, "Access Denied. No token provided.") EXCEPT
                              !.kind = "auth", !.token = tok, !.stored = known]
                 /\ UNCHANGED reqs
            ELSE IF ~Verify(tok, now)
            THEN /\ last' = [Response(r, 403, "Invalid or Expired Token.") EXCEPT
                              !.kind = "auth", !.token = tok, !.stored = known]
                 /\ UNCHANGED reqs
            ELSE /\ reqs' = Put([r EXCEPT !.pc = "auth"])
                 /\ last' = NoEvent
    /\ UNCHANGED <<now, ticks, users, addresses, nextUserId, nextAddrId, tokens, job, news>>

\* a guard that never rejects a verified credential
UserMissing_skip(res) == FALSE

\* line 43: if (error || !user)
UserMissing(res) == res.error \/ res.data = NoRow

\* lines 41-46: the lookup returns; 403 or req.user_id = decoded.user_id; next()
AuthLookup ==
    /\ \E r \in InFlight("protected", "auth"), fail \in Outcomes :
         LET rows == {u \in users : u.id = r.token.user_id}
             res == IF fail THEN Failed(NoRow) ELSE Single(rows, NoRow)
             seen == [lookup |-> IF fail THEN "error" ELSE IF rows = {} THEN "missing" ELSE "found",
                      stored |-> rows # {}]
         IN /\ IF UserMissing(res)
               THEN /\ reqs' = Take(r)
                    /\ last' = [Response(r, 403, "User not found or token invalid.") EXCEPT
                                   !.kind = "auth", !.token = r.token,
                                   !.lookup = seen.lookup, !.stored = seen.stored]
               ELSE /\ reqs' = Move(r, [r EXCEPT !.pc = "handler", !.user_id = r.token.user_id,
                                           !.token = NoToken,
                                           !.ok = r.ok /\ seen.lookup = "found"])
                    /\ last' = [Response(r, 0, "next") EXCEPT !.kind = "auth",
                                   !.token = r.token, !.user_id = r.token.user_id,
                                   !.lookup = seen.lookup, !.stored = seen.stored]
    /\ job' = Disturb
    /\ UNCHANGED <<now, ticks, users, addresses, nextUserId, nextAddrId, tokens, news>>

----------------------------------------------------------------------------
(* Protected handlers.  The route (and its body) has no effect before next() *)
(* calls the handler, so it is chosen at the handler's step.                 *)

\* GET /user, lines 100-115
GetUser ==
    /\ \E r \in InFlight("protected", "handler"), fail \in Outcomes :
         LET res == IF fail THEN Failed(NoRow)
                    ELSE Single({u \in users : u.id = r.user_id}, NoRow)
         IN /\ reqs' = Take(r)
            /\ last' = IF res.error \/ res.data = NoRow
                       THEN [Response(r, 404, "User not found") EXCEPT !.kind = "getUser"]
                       ELSE [Response(r, 200, "user") EXCEPT !.kind = "getUser"]
    /\ job' = Disturb
    /\ UNCHANGED <<now, ticks, users, addresses, nextUserId, nextAddrId, tokens, news>>

\* a schema without the foreign key
FKParentExists_none(uid) == TRUE

\* addresses.user_id references users.id: the database rejects an address row
\* whose user_id is no stored user
FKParentExists(uid) == \E u \in users : u.id = uid

\* POST /address, lines 118-135
PostAddress ==
    /\ \E r \in InFlight("protected", "handler"), fail \in InsertOutcomes(nextAddrId, MaxAddrs),
          d \in AddrData :
         LET row == [id |-> nextAddrId, user_id |-> r.user_id, data |-> d]
         IN /\ reqs' = Take(r)
            /\ IF fail \/ ~FKParentExists(r.user_id)
               THEN /\ last' = [Response(r, 500, "error.message") EXCEPT !.kind = "postAddress"]
                    /\ UNCHANGED <<addresses, nextAddrId>>
               ELSE /\ addresses' = addresses \cup {row}
                    /\ nextAddrId' = nextAddrId + 1
                    /\ last' = [Response(r, 201, "Address added successfully") EXCEPT
                                   !.kind = "postAddress", !.eff = TRUE]
    /\ job' = Disturb
    /\ UNCHANGED <<now, ticks, users, nextUserId, tokens, news>>

\* the filter without .eq("user_id", req.user_id)
OwnAddress_anyOwner(id, uid) == {a \in addresses : a.id = id}

\* .eq("id", id).eq("user_id", req.user_id)
OwnAddress(id, uid) == {a \in addresses : a.id = id /\ a.user_id = uid}

\* the address named by :id is stored and belongs to somebody else
Foreign(id, uid) == \E a \in addresses : a.id = id /\ a.user_id # uid

\* PUT /address/:id, lines 138-158
PutAddress ==
    /\ \E r \in InFlight("protected", "handler"), fail \in Outcomes,
          id \in 1..MaxAddrs, d \in AddrData :
         LET hit == IF fail THEN {} ELSE OwnAddress(id, r.user_id)
             upd == {[a EXCEPT !.data = d] : a \in hit}
             res == IF fail THEN Failed(NoAddr) ELSE Single(upd, NoAddr)
             ev == [Response(r, 0, "") EXCEPT !.kind = "putAddress",
                       !.pre = Foreign(id, r.user_id)]
         IN /\ addresses' = (addresses \ hit) \cup upd
            /\ reqs' = Take(r)
            /\ last' = IF res.error
                       THEN [ev EXCEPT !.status = 404, !.msg = "Address not found or unauthorized access.",
                                       !.eff = (addresses' # addresses)]
                       ELSE [ev EXCEPT !.status = 200, !.msg = "Address updated successfully",
                                       !.eff = (addresses' # addresses)]
    /\ job' = Disturb
    /\ UNCHANGED <<now, ticks, users, nextUserId, nextAddrId, tokens, news>>

\* DELETE /address/:id, lines 161-174.  delete() without select() resolves
\* to data: null, so `error || !data` holds after every call.
DeleteAddress ==
    /\ \E r \in InFlight("protected", "handler"), fail \in Outcomes, id \in 1..MaxAddrs :
         LET hit == IF fail THEN {} ELSE OwnAddress(id, r.user_id)
             res == [data |-> NoAddr, error |-> fail]
             ev == [Response(r, 0, "") EXCEPT !.kind = "deleteAddress",
                       !.pre = Foreign(id, r.user_id)]
         IN /\ addresses' = addresses \ hit
            /\ reqs' = Take(r)
            /\ last' = IF res.error \/ res.data = NoAddr
                       THEN [ev EXCEPT !.status = 404, !.msg = "Address not found or unauthorized",
                                       !.eff = (addresses' # addresses)]
                       ELSE [ev EXCEPT !.status = 200, !.msg = "Address deleted successfully",
                                       !.eff = (addresses' # addresses)]
    /\ job' = Disturb
    /\ UNCHANGED <<now, ticks, users, nextUserId, nextAddrId, tokens, news>>

----------------------------------------------------------------------------
(* cleanupInactiveUsers (lines 231-256), started by setInterval (line 259) *)

\* lines 232-233: new Date(); setMonth(getMonth() - 3)
ThreeMonthsAgo(t) == t - InactiveMonths * DaysPerMonth

\* .lte instead of .lt
Inactive_lte(u, cutoff) == u.last_login # NoTime /\ u.last_login <= cutoff

\* .lt("last_login", cutoff): a NULL last_login never compares less
Inactive(u, cutoff) == u.last_login # NoTime /\ u.last_login < cutoff

\* lines 232-238: compute the cutoff, issue the select
CleanupStart ==
    /\ job.pc = "idle"
    /\ BagCardinality(reqs) < MaxConcurrent
    /\ job' = [IdleJob EXCEPT !.pc = "select", !.cutoff = ThreeMonthsAgo(now), !.startedAt = now,
                              !.clean = TRUE, !.users0 = users, !.addrs0 = addresses]
    /\ last' = NoEvent
    /\ UNCHANGED <<now, ticks, users, addresses, nextUserId, nextAddrId, tokens, reqs, news>>

\* what the iteration reports when it returns
JobEvent(j, gone) ==
    [NoEvent EXCEPT !.kind = "cleanup", !.cutoff = j.cutoff, !.startedAt = j.startedAt,
                    !.ok = j.clean, !.users0 = j.users0, !.addrs0 = j.addrs0, !.deleted = gone]

\* lines 235-249: the select returns; on rows, issue the address delete
CleanupSelect ==
    /\ job.pc = "select"
    /\ \E fail \in Outcomes :
         LET ids == {u.id : u \in {x \in users : Inactive(x, job.cutoff)}}
         IN /\ IF fail
               THEN /\ job' = IdleJob
                    /\ last' = [JobEvent(job, {}) EXCEPT !.ok = FALSE, !.msg = "Error fetching inactive users:"]
               ELSE IF ids = {}
               THEN /\ job' = IdleJob
                    /\ last' = JobEvent(job, {})
               ELSE /\ job' = [job EXCEPT !.pc = "delAddr", !.userIds = ids]
                    /\ last' = NoEvent
    /\ UNCHANGED <<now, ticks, users, addresses, nextUserId, nextAddrId, tokens, reqs, news>>

\* lines 249-252: the address delete returns (its result is not read);
\* issue the user delete
CleanupDelAddr ==
    /\ job.pc = "delAddr"
    /\ \E fail \in Outcomes :
         /\ addresses' = IF fail THEN addresses
                         ELSE {a \in addresses : a.user_id \notin job.userIds}
         /\ job' = [job EXCEPT !.pc = "delUsers", !.addrErr = fail,
                               !.clean = job.clean /\ ~fail]
    /\ last' = NoEvent
    /\ UNCHANGED <<now, ticks, users, nextUserId, nextAddrId, tokens, reqs, news>>

\* addresses.user_id references users.id (no cascade: "Delete addresses first
\* (since they reference users)"): the database rejects the statement while
\* an address row references one of the users
FKAllowsDelete(ids) == ~\E a \in addresses : a.user_id \in ids

\* lines 252-254: the user delete returns (its result is not read); log
CleanupDelUsers ==
    /\ job.pc = "delUsers"
    /\ \E fail \in Outcomes :
         LET gone == IF fail \/ ~FKAllowsDelete(job.userIds) THEN {}
                     ELSE {u \in users : u.id \in job.userIds}
         IN /\ users' = users \ gone
            /\ last' = [JobEvent([job EXCEPT !.clean = job.clean /\ ~fail], gone) EXCEPT
                           !.msg = "Deleted inactive users."]
    /\ job' = IdleJob
    /\ UNCHANGED <<now, ticks, addresses, nextUserId, nextAddrId, tokens, reqs, news>>

----------------------------------------------------------------------------
(* POST /subscribe (lines 179-212) *)

\* lines 180-201: validate the body; the lookup by email returns (only `data`
\* is read); issue the insert
SubscribeSelect ==
    /\ Room
    /\ \E e \in Emails \cup {NoEmail}, fail \in Outcomes :
         LET r == [NewReq("subscribe") EXCEPT !.email = e, !.pre = (e # NoEmail /\ news[e] > 0)]
             existingEmail == e # NoEmail /\ ~fail /\ news[e] = 1
         IN IF e = NoEmail
            THEN /\ ~fail
                 /\ last' = Response(r, 400, "Email is required")
                 /\ UNCHANGED reqs
            ELSE IF existingEmail
            THEN /\ last' = Response(r, 409, "Already subscribed")
                 /\ UNCHANGED reqs
            ELSE /\ reqs' = Put([r EXCEPT !.pc = "insert"])
                 /\ last' = NoEvent
    /\ UNCHANGED <<now, ticks, users, addresses, nextUserId, nextAddrId, tokens, job, news>>

\* The insert of an email that is already stored: the schema is not part of
\* the source, so a unique constraint may or may not reject it.
InsertEmailOutcomes(e) == IF news[e] > 0 THEN {"ok", "unique_violation"} ELSE {"ok"}

\* lines 199-210: the insert returns; an insertError is thrown and caught
SubscribeInsert ==
    /\ \E r \in InFlight("subscribe", "insert") :
       \E fail \in InsertOutcomes(news[r.email] + 1, MaxNewsRows), out \in InsertEmailOutcomes(r.email) :
         /\ reqs' = Take(r)
         /\ IF fail \/ out # "ok"
            THEN /\ last' = Response(r, 500, "Internal server error")
                 /\ UNCHANGED news
            ELSE /\ news' = [news EXCEPT ![r.email] = @ + 1]
                 /\ last' = [Response(r, 201, "Subscribed successfully") EXCEPT !.eff = TRUE]
    /\ UNCHANGED <<now, ticks, users, addresses, nextUserId, nextAddrId, tokens, job>>

----------------------------------------------------------------------------
Next ==
    \/ Tick
    \/ SignupSelect
    \/ SignupInsert
    \/ LoginSelect
    \/ LoginUpdate
    \/ StartProtected
    \/ AuthLookup
    \/ GetUser
    \/ PostAddress
    \/ PutAddress
    \/ DeleteAddress
    \/ CleanupStart
    \/ CleanupSelect
    \/ CleanupDelAddr
    \/ CleanupDelUsers

Spec == Init /\ [][Next]_vars

\* the newsletter table shares nothing with the other tables
NextNews ==
    \/ SubscribeSelect
    \/ SubscribeInsert

SpecNews == Init /\ [][NextNews]_vars

----------------------------------------------------------------------------
(* Properties *)

AuthOutcome == last.kind = "auth"
Is401 == last.status = 401
IsInvalid == last.status = 403 /\ last.msg = "Invalid or Expired Token."
IsNotFound == last.status = 403 /\ last.msg = "User not found or token invalid."
IsNext == last.msg = "next"
HandlerKinds == {"getUser", "postAddress", "putAddress", "deleteAddress"}

OlderThanThreeMonths(u, t) ==
    u.last_login # NoTime /\ u.last_login < t - InactiveMonths * DaysPerMonth

C3_Expired(ev) == {u \in ev.users0 : OlderThanThreeMonths(u, ev.startedAt)}

\* C3: an iteration with no concurrent request and no database error removes
\* exactly the users whose last_login is strictly older than its start minus
\* three months and exactly the addresses of those users, and leaves every
\* other user and address unchanged.
C3_CleanIteration ==
    (last.kind = "cleanup" /\ last.ok) =>
        /\ users = last.users0 \ C3_Expired(last)
        /\ addresses = {a \in last.addrs0 : a.user_id \notin {u.id : u \in C3_Expired(last)}}

\* an undisturbed iteration removed a user and an address and kept a user
C3_Witness ==
    /\ last.kind = "cleanup" /\ last.ok
    /\ last.deleted # {} /\ users # {} /\ addresses # last.addrs0

\* C4 as stated: a signup whose mobile_number already belongs to a stored user
\* answers 400 and stores nothing; no two stored users share a mobile_number.
C4_AsStated ==
    /\ (last.kind = "signup" /\ last.pre) => (last.status = 400 /\ ~last.eff)
    /\ \A u, v \in users : u.mobile_number = v.mobile_number => u = v

C6_AsStated == (last.kind = "login" /\ last.status = 200) => last.eff

\* C7: PUT or DELETE /address/:id on an address of another user answers 404
\* and leaves the addresses unchanged.
C7_ForeignAddress ==
    (last.kind \in {"putAddress", "deleteAddress"} /\ last.pre) =>
        (last.status = 404 /\ ~last.eff)

\* a DELETE named an address stored for another user
C7_Witness == last.kind = "deleteAddress" /\ last.pre /\ addresses # {}

\* C8 as stated: at most one row per email; a subscribe for an email that is
\* already stored answers 409 and adds no row.
C8_AsStated ==
    /\ \A e \in Emails : news[e] <= 1
    /\ (last.kind = "subscribe" /\ last.pre) => (last.status = 409 /\ ~last.eff)

\* C9 as stated: the job deletes a user row only if its last_login is strictly
\* older than the iteration's cutoff at the moment the row is deleted.
C9_AsStated ==
    last.kind = "cleanup" =>
        \A u \in last.deleted : u.last_login # NoTime /\ u.last_login < last.cutoff

\* C10 as stated: the user delete is issued after the address delete has
\* returned, and not at all when the address delete failed.
C10_AsStated == job.pc = "delUsers" => ~job.addrErr
====
